---- MODULE Spec2Model ----
(***************************************************************************)
(* Server actions of next_banking: the identity actions of                 *)
(* src/lib/actions/user.actions.ts (signIn, signUp, logoutAccount,         *)
(* getLoggedInUser) and the money-movement / checkbook actions that follow *)
(* the AuthForm component in src/components/AuthForm.tsx                   *)
(* (createCheckbookCustomer, connectToBankPlaid, addFundingSource,         *)
(* createTransfer).                                                        *)
(*                                                                         *)
(* Each invocation of a server action is a process.  JavaScript runs the   *)
(* code between two awaits atomically, so one action of the model is the   *)
(* code from one await to the next; a vendor's handling of a request is an *)
(* action of its own, taken between the request and the resumption of the  *)
(* awaiting invocation.  A promise nobody awaits lives in `pending` until  *)
(* it settles.                                                             *)
(*                                                                         *)
(* The AuthForm component's onSubmit is modelled the same way on top of    *)
(* signIn and signUp, and the generated checkbook client of                *)
(* src/.api/apis/checkbook-docs/index.ts as a table of its methods.        *)
(***************************************************************************)
EXTENDS Integers, Sequences, FiniteSets, TLC

VARIABLES
    proc,          \* proc[p]: the invocation running in slot p
    accounts,      \* identity provider: the account records
    sessions,      \* identity provider: the live sessions
    issued,        \* identity provider: number of session secrets issued so far
    cookie,        \* the browser's "appwrite-session" cookie, or NoCookie
    fundingSources,\* payment network: registered funding sources (requests received)
    transfers,     \* payment network: transfer request bodies received, in order
    sdkAuth,       \* checkbook client: credentials set by sdk.auth
    sdkConfig,     \* checkbook client: options set by sdk.config
    sdkServer,     \* checkbook client: server URL set by sdk.server
    pending,       \* checkbook client: requests whose promise nobody awaits
    checkbook,     \* checkbook platform: the requests it has accepted
    rejected,      \* checkbook client: the rejected requests, caught or not
    form           \* the mounted AuthForm: its props, state and running onSubmit

vars == <<proc, accounts, sessions, issued, cookie, fundingSources, transfers,
          sdkAuth, sdkConfig, sdkServer, pending, checkbook, rejected, form>>

identityVars == <<accounts, sessions, issued, cookie>>
fundsVars == <<fundingSources, transfers>>
checkbookVars == <<sdkAuth, sdkConfig, sdkServer, pending, checkbook, rejected>>
formVars == <<form>>

----------------------------------------------------------------------------
(* Bounds *)

NumProcs == 1          \* invocation slots, i.e. requests served at a time
MaxSessions == 2       \* session secrets the identity provider issues
MaxTransfers == 2      \* transfers the payment network accepts
MaxPending == 2        \* un-awaited checkbook requests in flight
NumConcurrent == 2     \* requests in service at a time in SpecIdentityConcurrent

Procs == 1..NumProcs

Emails == {"a@mail.ru", "b@mail.ru"}
Passwords == {"pw1"}
FirstNames == {"Max"}
LastNames == {"GMV"}

DwollaCustomerIds == {"customer-1"}
ProcessorTokens == {"processor-token-1"}
BankNames == {"Bank A"}
AuthLinks == {"on-demand-authorization-1", "on-demand-authorization-2"}
SourceUrls == {"funding-sources/1", "funding-sources/2"}
DestinationUrls == {"funding-sources/2"}
Amounts == {"-5.00", "0", "5.00"}

\* process.env.CHECKBOOK_KEY and process.env.CHECKBOOK_SECRET
api_key == "CHECKBOOK_KEY"
api_secret == "CHECKBOOK_SECRET"

\* process.env.CHECKBOOK_BASE_URL
api_base_url == "CHECKBOOK_BASE_URL"

\* The options of the client before sdk.config is called: the request
\* timeout of 30 seconds.
DefaultConfig == [timeout |-> 30000]

----------------------------------------------------------------------------
(* Values *)

Undefined == [kind |-> "undefined"]
Null == [kind |-> "null"]
True == [kind |-> "true"]

NoCookie == [name |-> "none"]
NoClient == [kind |-> "none"]
NoResp == [kind |-> "none"]
NoArgs == [none |-> TRUE]

Ok(v) == [kind |-> "ok", val |-> v]
Err == [kind |-> "error"]

\* A bug SessionCookie could have: the cookie is not marked secure.
SessionCookieInsecure(secret) ==
    [name |-> "appwrite-session", value |-> secret, path |-> "/",
     httpOnly |-> TRUE, sameSite |-> "strict", secure |-> FALSE]

\* The options object of cookies().set("appwrite-session", secret, {...}).
SessionCookie(secret) ==
    [name |-> "appwrite-session", value |-> secret, path |-> "/",
     httpOnly |-> TRUE, sameSite |-> "strict", secure |-> TRUE]

\* parseStringify is JSON.parse(JSON.stringify(v)): on the plain records of
\* this model (strings, numbers, booleans) it yields an equal record.
parseStringify(v) == v

\* <AuthForm type={type} /> as it mounts: useState(null), useState(false),
\* no onSubmit running, nothing pushed to the router.
AuthForm(type) ==
    [type |-> type, user |-> Null, isLoading |-> FALSE, pc |-> "idle",
     slot |-> 0, pushed |-> FALSE, last |-> "none"]

Idle ==
    [op |-> "none", pc |-> "idle", args |-> NoArgs, client |-> NoClient,
     resp |-> NoResp, local |-> Undefined, ret |-> Undefined, threw |-> FALSE,
     logged |-> FALSE, calls |-> <<>>]

\* proc[p].calls is the trace of the invocation: each call it makes, with
\* what it was given, followed by how the call settled.
Call(name, arg) == [name |-> name, arg |-> arg]
Settled(resp) == [name |-> "settled", arg |-> resp]

\* The awaited call has settled with proc[p].resp; the invocation resumes.
Resumed(r) == [r EXCEPT !.calls = Append(@, Settled(r.resp))]

Running(p, op, stage) == proc[p].op = op /\ proc[p].pc = stage

\* The invocation in slot p takes a step to record r.
Step(p, r) == proc' = [proc EXCEPT ![p] = r]

\* return v (the locals go out of scope)
Return(r, v) ==
    [r EXCEPT !.pc = "done", !.ret = v, !.resp = NoResp, !.args = NoArgs,
              !.client = NoClient, !.local = Undefined]

\* catch (error) { console.error(...) } and fall off the end: undefined
CatchLog(r) ==
    [r EXCEPT !.pc = "done", !.ret = Undefined, !.logged = TRUE,
              !.resp = NoResp, !.args = NoArgs, !.client = NoClient,
              !.local = Undefined]

----------------------------------------------------------------------------
(* Initial state *)

\* The vendors hold nothing, the browser has no cookie, the checkbook client
\* is as the module load leaves it.
InitExceptAccounts ==
    /\ sessions = {}
    /\ issued = 0
    /\ cookie = NoCookie
    /\ fundingSources = {}
    /\ transfers = <<>>
    /\ sdkAuth = "none"
    /\ sdkConfig = DefaultConfig
    /\ sdkServer = api_base_url
    /\ pending = <<>>
    /\ checkbook = {}
    /\ rejected = {}

InitVendors ==
    /\ accounts = {}
    /\ InitExceptAccounts

Init ==
    /\ proc = [p \in Procs |-> Idle]
    /\ form = AuthForm("sign-in")
    /\ InitVendors

----------------------------------------------------------------------------
(* Identity provider (the vendor side of the account.* calls) *)

\* account.createEmailPasswordSession(email, password) as the provider handles
\* it: a session with a fresh secret for the account the credentials match,
\* or an error.  Called from signIn and from signUp.
createEmailPasswordSession(p) ==
    /\ proc[p].pc = "session_sent"
    /\ \/ \E a \in accounts :
            /\ a.email = proc[p].args.email
            /\ a.password = proc[p].args.password
            /\ issued < MaxSessions
            /\ LET s == [secret |-> issued + 1, userId |-> a.id]
               IN /\ sessions' = sessions \cup {s}
                  /\ issued' = issued + 1
                  /\ Step(p, [proc[p] EXCEPT !.pc = "session_settled",
                                             !.resp = Ok(s)])
       \/ /\ Step(p, [proc[p] EXCEPT !.pc = "session_settled", !.resp = Err])
          /\ UNCHANGED <<sessions, issued>>
    /\ UNCHANGED <<accounts, cookie, fundsVars, checkbookVars, formVars>>

\* account.create(ID.unique(), email, password, name) as the provider handles
\* it: a new account record under a fresh id, or an error (the provider
\* keeps e-mail addresses unique).
accountCreate(p) ==
    /\ Running(p, "signUp", "create_sent")
    /\ \/ /\ \A a \in accounts : a.email # proc[p].args.email
          /\ LET a == [id |-> Cardinality(accounts) + 1,
                       email |-> proc[p].args.email,
                       password |-> proc[p].args.password,
                       name |-> proc[p].args.name]
             IN /\ accounts' = accounts \cup {a}
                /\ Step(p, [proc[p] EXCEPT !.pc = "create_settled",
                                           !.resp = Ok(a)])
       \/ /\ Step(p, [proc[p] EXCEPT !.pc = "create_settled", !.resp = Err])
          /\ UNCHANGED accounts
    /\ UNCHANGED <<sessions, issued, cookie, fundsVars, checkbookVars,
                 formVars>>

\* account.deleteSession("current") as the provider handles it: the session
\* the client was built for is removed, or an error.
deleteSession(p) ==
    /\ Running(p, "logoutAccount", "delete_sent")
    /\ \/ \E s \in sessions :
            /\ proc[p].client = [kind |-> "session", secret |-> s.secret]
            /\ sessions' = sessions \ {s}
            /\ Step(p, [proc[p] EXCEPT !.pc = "delete_settled",
                                       !.resp = Ok([deleted |-> s.secret])])
       \/ /\ Step(p, [proc[p] EXCEPT !.pc = "delete_settled", !.resp = Err])
          /\ UNCHANGED sessions
    /\ UNCHANGED <<accounts, issued, cookie, fundsVars, checkbookVars,
                 formVars>>

\* account.get() as the provider handles it: the account of the client's
\* session, or an error.
accountGet(p) ==
    /\ Running(p, "getLoggedInUser", "get_sent")
    /\ \/ \E s \in sessions, a \in accounts :
            /\ proc[p].client = [kind |-> "session", secret |-> s.secret]
            /\ a.id = s.userId
            /\ Step(p, [proc[p] EXCEPT !.pc = "get_settled", !.resp = Ok(a)])
       \/ Step(p, [proc[p] EXCEPT !.pc = "get_settled", !.resp = Err])
    /\ UNCHANGED <<identityVars, fundsVars, checkbookVars, formVars>>

\* createAdminClient(): a client with the server's own credentials.
AdminClient == [kind |-> "admin"]

\* createSessionClient(): a client for the session named by the cookie as it
\* is when the client is built.
SessionClient ==
    IF cookie = NoCookie THEN [kind |-> "session", secret |-> 0]
    ELSE [kind |-> "session", secret |-> cookie.value]

----------------------------------------------------------------------------
(* signIn *)

\* signIn is entered: the code up to `await createAdminClient()`.
signInCalled(email, password) ==
    [Idle EXCEPT !.op = "signIn", !.pc = "adminClient",
                 !.args = [email |-> email, password |-> password],
                 !.calls = <<Call("createAdminClient", NoArgs)>>]

signIn(p, email, password) ==
    /\ proc[p].pc = "idle"
    /\ Step(p, signInCalled(email, password))
    /\ UNCHANGED <<identityVars, fundsVars, checkbookVars, formVars>>

\* createAdminClient() settles: the session request goes out, or catch.
signIn_client(p) ==
    /\ Running(p, "signIn", "adminClient")
    /\ \/ Step(p, [proc[p] EXCEPT
                     !.pc = "session_sent",
                     !.client = AdminClient,
                     !.calls = @ \o <<Settled(Ok(AdminClient)),
                                      Call("account.createEmailPasswordSession",
                                           proc[p].args)>>])
       \/ Step(p, CatchLog([proc[p] EXCEPT !.calls = Append(@, Settled(Err))]))
    /\ UNCHANGED <<identityVars, fundsVars, checkbookVars, formVars>>

\* A bug signIn_session could have: cookies().set runs on whatever came
\* back, before the failure is noticed.
signIn_sessionSetsCookieAnyway(p) ==
    /\ Running(p, "signIn", "session_settled")
    /\ \/ /\ proc[p].resp.kind = "ok"
          /\ LET session == proc[p].resp.val
                 set == Call("cookies.set", SessionCookie(session.secret))
                 r == Resumed(proc[p])
             IN /\ cookie' = set.arg
                /\ Step(p, Return([r EXCEPT !.calls = @ \o <<set, Settled(Ok(set.arg))>>],
                                  parseStringify(session)))
       \/ /\ proc[p].resp.kind = "error"
          /\ LET set == Call("cookies.set", SessionCookie(0))
                 r == Resumed(proc[p])
             IN /\ cookie' = set.arg
                /\ Step(p, CatchLog([r EXCEPT !.calls = @ \o <<set, Settled(Ok(set.arg))>>]))
    /\ UNCHANGED <<accounts, sessions, issued, fundsVars, checkbookVars, formVars>>

\* The session request settles: cookies().set and return, or catch.
signIn_session(p) ==
    /\ Running(p, "signIn", "session_settled")
    /\ \/ /\ proc[p].resp.kind = "ok"
          /\ LET session == proc[p].resp.val
                 set == Call("cookies.set", SessionCookie(session.secret))
                 r == Resumed(proc[p])
             IN \/ /\ cookie' = set.arg
                   /\ Step(p, Return([r EXCEPT !.calls = @ \o <<set, Settled(Ok(set.arg))>>],
                                     parseStringify(session)))
                \/ /\ Step(p, CatchLog([r EXCEPT !.calls = @ \o <<set, Settled(Err)>>]))
                   /\ UNCHANGED cookie
       \/ /\ proc[p].resp.kind = "error"
          /\ Step(p, CatchLog(Resumed(proc[p])))
          /\ UNCHANGED cookie
    /\ UNCHANGED <<accounts, sessions, issued, fundsVars, checkbookVars,
                 formVars>>

----------------------------------------------------------------------------
(* signUp *)

\* signUp is entered: the code up to `await createAdminClient()`.
signUpCalled(email, password, firstName, lastName) ==
    [Idle EXCEPT !.op = "signUp", !.pc = "adminClient",
                 !.args = [email |-> email, password |-> password,
                           name |-> firstName \o " " \o lastName],
                 !.calls = <<Call("createAdminClient", NoArgs)>>]

signUp(p, email, password, firstName, lastName) ==
    /\ proc[p].pc = "idle"
    /\ Step(p, signUpCalled(email, password, firstName, lastName))
    /\ UNCHANGED <<identityVars, fundsVars, checkbookVars, formVars>>

\* createAdminClient() settles: account.create goes out, or catch.
signUp_client(p) ==
    /\ Running(p, "signUp", "adminClient")
    /\ \/ Step(p, [proc[p] EXCEPT
                     !.pc = "create_sent",
                     !.client = AdminClient,
                     !.calls = @ \o <<Settled(Ok(AdminClient)),
                                      Call("account.create", proc[p].args)>>])
       \/ Step(p, CatchLog([proc[p] EXCEPT !.calls = Append(@, Settled(Err))]))
    /\ UNCHANGED <<identityVars, fundsVars, checkbookVars, formVars>>

\* account.create settles: the session request goes out, or catch.
signUp_account(p) ==
    /\ Running(p, "signUp", "create_settled")
    /\ \/ /\ proc[p].resp.kind = "ok"
          /\ Step(p, [Resumed(proc[p]) EXCEPT
                        !.pc = "session_sent",
                        !.local = proc[p].resp.val,
                        !.resp = NoResp,
                        !.calls = Append(@, Call("account.createEmailPasswordSession",
                                                 [email |-> proc[p].args.email,
                                                  password |-> proc[p].args.password]))])
       \/ /\ proc[p].resp.kind = "error"
          /\ Step(p, CatchLog(Resumed(proc[p])))
    /\ UNCHANGED <<identityVars, fundsVars, checkbookVars, formVars>>

\* A bug signUp_session could have: the cookie is never set.
signUp_sessionNoCookie(p) ==
    /\ Running(p, "signUp", "session_settled")
    /\ \/ /\ proc[p].resp.kind = "ok"
          /\ Step(p, Return(Resumed(proc[p]), parseStringify(proc[p].local)))
       \/ /\ proc[p].resp.kind = "error"
          /\ Step(p, CatchLog(Resumed(proc[p])))
    /\ UNCHANGED <<identityVars, fundsVars, checkbookVars, formVars>>

\* A bug signUp_session could have: when the session request fails the
\* account just created is taken back out.
signUp_sessionRollsBack(p) ==
    /\ Running(p, "signUp", "session_settled")
    /\ \/ /\ proc[p].resp.kind = "ok"
          /\ LET session == proc[p].resp.val
                 set == Call("cookies.set", SessionCookie(session.secret))
                 r == Resumed(proc[p])
             IN /\ cookie' = set.arg
                /\ Step(p, Return([r EXCEPT !.calls = @ \o <<set, Settled(Ok(set.arg))>>],
                                  parseStringify(proc[p].local)))
          /\ UNCHANGED accounts
       \/ /\ proc[p].resp.kind = "error"
          /\ accounts' = accounts \ {proc[p].local}
          /\ Step(p, CatchLog([Resumed(proc[p]) EXCEPT
                                 !.calls = @ \o <<Call("users.delete", proc[p].local),
                                                  Settled(Ok(proc[p].local))>>]))
          /\ UNCHANGED cookie
    /\ UNCHANGED <<sessions, issued, fundsVars, checkbookVars, formVars>>

\* The session request settles: cookies().set and return the account, or catch.
signUp_session(p) ==
    /\ Running(p, "signUp", "session_settled")
    /\ \/ /\ proc[p].resp.kind = "ok"
          /\ LET session == proc[p].resp.val
                 set == Call("cookies.set", SessionCookie(session.secret))
                 r == Resumed(proc[p])
             IN \/ /\ cookie' = set.arg
                   /\ Step(p, Return([r EXCEPT !.calls = @ \o <<set, Settled(Ok(set.arg))>>],
                                     parseStringify(proc[p].local)))
                \/ /\ Step(p, CatchLog([r EXCEPT !.calls = @ \o <<set, Settled(Err)>>]))
                   /\ UNCHANGED cookie
       \/ /\ proc[p].resp.kind = "error"
          /\ Step(p, CatchLog(Resumed(proc[p])))
          /\ UNCHANGED cookie
    /\ UNCHANGED <<accounts, sessions, issued, fundsVars, checkbookVars,
                 formVars>>

----------------------------------------------------------------------------
(* logoutAccount *)

logoutAccount(p) ==
    /\ proc[p].pc = "idle"
    /\ Step(p, [Idle EXCEPT !.op = "logoutAccount", !.pc = "sessionClient",
                            !.calls = <<Call("createSessionClient", NoArgs)>>])
    /\ UNCHANGED <<identityVars, fundsVars, checkbookVars, formVars>>

\* A bug logoutAccount_client could have: the session is deleted at the
\* vendor first and the cookie is left for later.
logoutAccount_clientNoCookieDelete(p) ==
    /\ Running(p, "logoutAccount", "sessionClient")
    /\ \/ Step(p, [proc[p] EXCEPT
                     !.pc = "delete_sent",
                     !.client = SessionClient,
                     !.calls = @ \o <<Settled(Ok(SessionClient)),
                                      Call("account.deleteSession",
                                           [id |-> "current"])>>])
       \/ Step(p, CatchLog([proc[p] EXCEPT !.calls = Append(@, Settled(Err))]))
    /\ UNCHANGED <<identityVars, fundsVars, checkbookVars, formVars>>

\* createSessionClient() settles: cookies().delete, then the deleteSession
\* request goes out; or catch.
logoutAccount_client(p) ==
    /\ Running(p, "logoutAccount", "sessionClient")
    /\ LET del == Call("cookies.delete", [name |-> "appwrite-session"])
           got == [proc[p] EXCEPT !.client = SessionClient,
                                  !.calls = Append(@, Settled(Ok(SessionClient)))]
       IN \/ /\ cookie' = NoCookie
             /\ Step(p, [got EXCEPT
                           !.pc = "delete_sent",
                           !.calls = @ \o <<del, Settled(Ok(NoCookie)),
                                            Call("account.deleteSession",
                                                 [id |-> "current"])>>])
          \/ /\ Step(p, CatchLog([got EXCEPT !.calls = @ \o <<del, Settled(Err)>>]))
             /\ UNCHANGED cookie
          \/ /\ Step(p, CatchLog([proc[p] EXCEPT !.calls = Append(@, Settled(Err))]))
             /\ UNCHANGED cookie
    /\ UNCHANGED <<accounts, sessions, issued, fundsVars, checkbookVars,
                 formVars>>

\* A bug logoutAccount_deleted could have: `return true` after the try block.
logoutAccount_deletedAlwaysTrue(p) ==
    /\ Running(p, "logoutAccount", "delete_settled")
    /\ \/ /\ proc[p].resp.kind = "ok"
          /\ Step(p, Return(Resumed(proc[p]), True))
       \/ /\ proc[p].resp.kind = "error"
          /\ Step(p, [CatchLog(Resumed(proc[p])) EXCEPT !.ret = True])
    /\ UNCHANGED <<identityVars, fundsVars, checkbookVars, formVars>>

\* A bug logoutAccount_deleted could have: when the vendor's deletion fails
\* the cookie is put back.
logoutAccount_deletedRestoresCookie(p) ==
    /\ Running(p, "logoutAccount", "delete_settled")
    /\ \/ /\ proc[p].resp.kind = "ok"
          /\ Step(p, Return(Resumed(proc[p]), True))
          /\ UNCHANGED cookie
       \/ /\ proc[p].resp.kind = "error"
          /\ LET set == Call("cookies.set", SessionCookie(proc[p].client.secret))
             IN /\ cookie' = set.arg
                /\ Step(p, CatchLog([Resumed(proc[p]) EXCEPT
                                       !.calls = @ \o <<set, Settled(Ok(set.arg))>>]))
    /\ UNCHANGED <<accounts, sessions, issued, fundsVars, checkbookVars,
                 formVars>>

\* deleteSession settles: return true, or catch.
logoutAccount_deleted(p) ==
    /\ Running(p, "logoutAccount", "delete_settled")
    /\ \/ /\ proc[p].resp.kind = "ok"
          /\ Step(p, Return(Resumed(proc[p]), True))
       \/ /\ proc[p].resp.kind = "error"
          /\ Step(p, CatchLog(Resumed(proc[p])))
    /\ UNCHANGED <<identityVars, fundsVars, checkbookVars, formVars>>

----------------------------------------------------------------------------
(* getLoggedInUser *)

getLoggedInUser(p) ==
    /\ proc[p].pc = "idle"
    /\ Step(p, [Idle EXCEPT !.op = "getLoggedInUser", !.pc = "sessionClient",
                            !.calls = <<Call("createSessionClient", NoArgs)>>])
    /\ UNCHANGED <<identityVars, fundsVars, checkbookVars, formVars>>

\* A bug CatchNull could have: the catch block logs and returns nothing.
CatchNullReturnsNothing(r) == CatchLog(r)

\* catch (error) { console.log(error); return null }
CatchNull(r) == [CatchLog(r) EXCEPT !.ret = Null]

\* createSessionClient() settles: account.get goes out, or catch.
getLoggedInUser_client(p) ==
    /\ Running(p, "getLoggedInUser", "sessionClient")
    /\ \/ Step(p, [proc[p] EXCEPT
                     !.pc = "get_sent",
                     !.client = SessionClient,
                     !.calls = @ \o <<Settled(Ok(SessionClient)),
                                      Call("account.get", NoArgs)>>])
       \/ Step(p, CatchNull([proc[p] EXCEPT !.calls = Append(@, Settled(Err))]))
    /\ UNCHANGED <<identityVars, fundsVars, checkbookVars, formVars>>

\* A bug getLoggedInUser_result could have: a cookie the provider does not
\* accept is removed on the spot.
getLoggedInUser_resultClearsCookie(p) ==
    /\ Running(p, "getLoggedInUser", "get_settled")
    /\ \/ /\ proc[p].resp.kind = "ok"
          /\ Step(p, Return(Resumed(proc[p]), parseStringify(proc[p].resp.val)))
          /\ UNCHANGED cookie
       \/ /\ proc[p].resp.kind = "error"
          /\ Step(p, CatchNull(Resumed(proc[p])))
          /\ cookie' = NoCookie
    /\ UNCHANGED <<accounts, sessions, issued, fundsVars, checkbookVars,
                 formVars>>

\* account.get settles: return the account, or catch.
getLoggedInUser_result(p) ==
    /\ Running(p, "getLoggedInUser", "get_settled")
    /\ \/ /\ proc[p].resp.kind = "ok"
          /\ Step(p, Return(Resumed(proc[p]), parseStringify(proc[p].resp.val)))
       \/ /\ proc[p].resp.kind = "error"
          /\ Step(p, CatchNull(Resumed(proc[p])))
    /\ UNCHANGED <<identityVars, fundsVars, checkbookVars, formVars>>

----------------------------------------------------------------------------
(* The caller takes the result; the slot is free for the next request. *)

Finish(p) ==
    /\ proc[p].pc = "done"
    /\ Step(p, Idle)
    /\ pending' = [i \in DOMAIN pending |->
                     IF pending[i].owner = p THEN [pending[i] EXCEPT !.owner = 0]
                     ELSE pending[i]]
    /\ UNCHANGED <<identityVars, fundsVars, sdkAuth, sdkConfig, sdkServer, checkbook,
                 rejected, formVars>>

----------------------------------------------------------------------------
(* The identity actions alone *)

\* One step of, or on behalf of, the invocation in slot p.
IdentityStep(p) ==
    \/ \E e \in Emails, pw \in Passwords : signIn(p, e, pw)
    \/ signIn_client(p)
    \/ signIn_session(p)
    \/ \E e \in Emails, pw \in Passwords, f \in FirstNames, l \in LastNames :
          signUp(p, e, pw, f, l)
    \/ signUp_client(p)
    \/ signUp_account(p)
    \/ signUp_session(p)
    \/ logoutAccount(p)
    \/ logoutAccount_client(p)
    \/ logoutAccount_deleted(p)
    \/ getLoggedInUser(p)
    \/ getLoggedInUser_client(p)
    \/ getLoggedInUser_result(p)
    \/ createEmailPasswordSession(p)
    \/ accountCreate(p)
    \/ deleteSession(p)
    \/ accountGet(p)
    \/ Finish(p)

IdentityNext == \E p \in Procs : IdentityStep(p)

SpecIdentity == Init /\ [][IdentityNext]_vars

----------------------------------------------------------------------------
(* The identity actions with several requests of one browser in service at *)
(* a time: the server runs each request as its own invocation, and all of  *)
(* them read and write the one "appwrite-session" cookie.                  *)

Concurrent == 1..NumConcurrent

InitConcurrent ==
    /\ proc = [p \in Concurrent |-> Idle]
    /\ form = AuthForm("sign-in")
    /\ InitVendors

ConcurrentNext == \E p \in Concurrent : IdentityStep(p)

SpecIdentityConcurrent == InitConcurrent /\ [][ConcurrentNext]_vars

----------------------------------------------------------------------------
(* AuthForm (src/components/AuthForm.tsx): onSubmit and what it awaits *)

FormTypes == {"sign-in", "sign-up"}

\* What `if (v)` and `v ? a : b` take as true, of the values the server
\* actions give.
Truthy(v) == v # Undefined /\ v # Null

\* <Button type="submit" disabled={isLoading}>
SubmitDisabled == form.isLoading

\* A bug PlaidLinkRendered could have: `user !== null ? <PlaidLink/> : <form>`.
PlaidLinkRenderedUnlessNull == form.user # Null

\* `user ? <PlaidLink user={user}/> : <form>`: the bank-linking step is on
\* the page.
PlaidLinkRendered == Truthy(form.user)

\* The form is on the page: no user yet (`user ? <PlaidLink/> : <form>`) and
\* the router has not been sent to "/".
FormShown == ~PlaidLinkRendered /\ ~form.pushed

\* A bug onSubmit could have: setIsLoading(true) is missing, so the button
\* stays enabled while the call is awaited.
onSubmitNotLoading(p, data) ==
    /\ FormShown
    /\ ~SubmitDisabled
    /\ proc[p].pc = "idle"
    /\ form' = [form EXCEPT !.pc = "awaiting", !.slot = p]
    /\ Step(p, IF form.type = "sign-up"
               THEN signUpCalled(data.email, data.password,
                                 data.firstName, data.lastName)
               ELSE signInCalled(data.email, data.password))
    /\ UNCHANGED <<identityVars, fundsVars, checkbookVars>>

\* onSubmit(data) up to its await: setIsLoading(true), then the call of
\* signUp or signIn, which starts the server action in slot p.
onSubmit(p, data) ==
    /\ FormShown
    /\ ~SubmitDisabled
    /\ proc[p].pc = "idle"
    /\ form' = [form EXCEPT !.isLoading = TRUE, !.pc = "awaiting", !.slot = p]
    /\ Step(p, IF form.type = "sign-up"
               THEN signUpCalled(data.email, data.password,
                                 data.firstName, data.lastName)
               ELSE signInCalled(data.email, data.password))
    /\ UNCHANGED <<identityVars, fundsVars, checkbookVars>>

\* A bug onSubmit_settled could have: setIsLoading(false) is the last
\* statement of the try block, and there is no finally.
onSubmit_settledNoFinally(p) ==
    /\ form.pc = "awaiting"
    /\ form.slot = p
    /\ proc[p].pc = "done"
    /\ Step(p, Idle)
    /\ \/ LET response == proc[p].ret
          IN form' = [form EXCEPT
                        !.user = IF form.type = "sign-up" THEN response ELSE @,
                        !.pushed = form.type = "sign-in" /\ Truthy(response),
                        !.last = IF Truthy(response) THEN "value" ELSE "undefined",
                        !.isLoading = FALSE, !.pc = "idle", !.slot = 0]
       \/ form' = [form EXCEPT !.last = "threw", !.pc = "idle", !.slot = 0]
    /\ UNCHANGED <<identityVars, fundsVars, checkbookVars>>

\* A bug onSubmit_settled could have: router.push('/') whatever signIn
\* returned.
onSubmit_settledAlwaysPushes(p) ==
    /\ form.pc = "awaiting"
    /\ form.slot = p
    /\ proc[p].pc = "done"
    /\ Step(p, Idle)
    /\ \/ LET response == proc[p].ret
          IN form' = [form EXCEPT
                        !.user = IF form.type = "sign-up" THEN response ELSE @,
                        !.pushed = form.type = "sign-in",
                        !.last = IF Truthy(response) THEN "value" ELSE "undefined",
                        !.isLoading = FALSE, !.pc = "idle", !.slot = 0]
       \/ form' = [form EXCEPT !.last = "threw",
                                !.isLoading = FALSE, !.pc = "idle", !.slot = 0]
    /\ UNCHANGED <<identityVars, fundsVars, checkbookVars>>

\* The awaited call settles and onSubmit runs to its end.  With the value
\* the server action returned: setUser(newUser) for a sign-up, `if (response)
\* router.push('/')` for a sign-in.  Or the call rejects (the response does
\* not arrive): catch, console.log.  Either way finally: setIsLoading(false).
onSubmit_settled(p) ==
    /\ form.pc = "awaiting"
    /\ form.slot = p
    /\ proc[p].pc = "done"
    /\ Step(p, Idle)
    /\ \/ LET response == proc[p].ret
          IN form' = [form EXCEPT
                        !.user = IF form.type = "sign-up" THEN response ELSE @,
                        !.pushed = form.type = "sign-in" /\ Truthy(response),
                        !.last = IF Truthy(response) THEN "value" ELSE "undefined",
                        !.isLoading = FALSE, !.pc = "idle", !.slot = 0]
       \/ form' = [form EXCEPT !.last = "threw",
                                !.isLoading = FALSE, !.pc = "idle", !.slot = 0]
    /\ UNCHANGED <<identityVars, fundsVars, checkbookVars>>

\* The accounts a visitor of the form may have registered before: what
\* account.create makes of a sign-up with the form's data.
Registered ==
    {[id |-> 1, email |-> e, password |-> pw, name |-> f \o " " \o l] :
        e \in Emails, pw \in Passwords, f \in FirstNames, l \in LastNames}

\* The page shows a form of either type, to a visitor who has no account or
\* has registered one before.
InitForm ==
    /\ proc = [p \in Procs |-> Idle]
    /\ form \in {AuthForm(type) : type \in FormTypes}
    /\ accounts \in {{}} \cup {{a} : a \in Registered}
    /\ InitExceptAccounts

\* What runs once onSubmit waits: the server action and the provider.
FormAwaited(p) ==
    \/ signIn_client(p)
    \/ signIn_session(p)
    \/ signUp_client(p)
    \/ signUp_account(p)
    \/ signUp_session(p)
    \/ createEmailPasswordSession(p)
    \/ accountCreate(p)
    \/ onSubmit_settled(p)

\* A step of the form whose server action runs in slot p.
FormStep(p) ==
    \/ \E e \in Emails, pw \in Passwords, f \in FirstNames, l \in LastNames :
          onSubmit(p, [email |-> e, password |-> pw,
                       firstName |-> f, lastName |-> l])
    \/ FormAwaited(p)

FormNext == \E p \in Procs : FormStep(p)

SpecForm == InitForm /\ [][FormNext]_vars

\* The same form in front of a server that can serve several requests at a
\* time: nothing on the server side stops a second submission.
InitFormConcurrent ==
    /\ proc = [p \in Concurrent |-> Idle]
    /\ form \in {AuthForm(type) : type \in FormTypes}
    /\ accounts \in {{}} \cup {{a} : a \in Registered}
    /\ InitExceptAccounts

FormConcurrentNext == \E p \in Concurrent : FormStep(p)

SpecFormConcurrent == InitFormConcurrent /\ [][FormConcurrentNext]_vars

\* Every call onSubmit awaits settles, and a settled call resumes its
\* caller: the provider answers or the request times out, and the event
\* loop runs the continuation of a settled await.
SpecFormFair == SpecForm /\ WF_vars(\E p \in Procs : FormAwaited(p))

----------------------------------------------------------------------------
(* Payment network (the callees of addFundingSource and createTransfer) *)

\* createOnDemandAuthorization(): resolves with the authorization links, or
\* rejects.
createOnDemandAuthorization(p) ==
    /\ Running(p, "addFundingSource", "auth_sent")
    /\ \/ \E l \in AuthLinks :
            Step(p, [proc[p] EXCEPT !.pc = "auth_settled", !.resp = Ok(l)])
       \/ Step(p, [proc[p] EXCEPT !.pc = "auth_settled", !.resp = Err])
    /\ UNCHANGED <<identityVars, fundsVars, checkbookVars, formVars>>

\* createFundingSource(options): registers the funding source and resolves
\* with it, or rejects.
createFundingSource(p) ==
    /\ Running(p, "addFundingSource", "source_sent")
    /\ \/ /\ fundingSources' = fundingSources \cup {proc[p].local}
          /\ Step(p, [proc[p] EXCEPT
                        !.pc = "source_settled",
                        !.resp = Ok([kind |-> "fundingSource",
                                     options |-> proc[p].local])])
       \/ /\ Step(p, [proc[p] EXCEPT !.pc = "source_settled", !.resp = Err])
          /\ UNCHANGED fundingSources
    /\ UNCHANGED <<identityVars, transfers, checkbookVars, formVars>>

\* The location header of the response to the n-th transfer.
Location(n) == [kind |-> "location", transfer |-> n]

\* dwollaClient.post("transfers", requestBody) as the network handles it: the
\* transfer is accepted and the response carries its location (or no such
\* header), or the request is accepted and the response is lost, or the
\* request is refused.
dwollaClientPost(p) ==
    /\ Running(p, "createTransfer", "transfer_sent")
    /\ \/ /\ Len(transfers) < MaxTransfers
          /\ transfers' = Append(transfers, proc[p].local)
          /\ \/ \E h \in {Location(Len(transfers) + 1), Null} :
                  Step(p, [proc[p] EXCEPT !.pc = "transfer_settled",
                                          !.resp = Ok([headers |-> [location |-> h]])])
             \/ Step(p, [proc[p] EXCEPT !.pc = "transfer_settled", !.resp = Err])
       \/ /\ Step(p, [proc[p] EXCEPT !.pc = "transfer_settled", !.resp = Err])
          /\ UNCHANGED transfers
    /\ UNCHANGED <<identityVars, fundingSources, checkbookVars, formVars>>

----------------------------------------------------------------------------
(* addFundingSource *)

addFundingSource(p, dwollaCustomerId, processorToken, bankName) ==
    /\ proc[p].pc = "idle"
    /\ Step(p, [Idle EXCEPT
                  !.op = "addFundingSource", !.pc = "auth_sent",
                  !.args = [dwollaCustomerId |-> dwollaCustomerId,
                            processorToken |-> processorToken,
                            bankName |-> bankName],
                  !.calls = <<Call("createOnDemandAuthorization", NoArgs)>>])
    /\ UNCHANGED <<identityVars, fundsVars, checkbookVars, formVars>>

\* A bug FundingSourceOptions could have: the customer id and the bank name
\* change places.
FundingSourceOptionsMisnamed(args, dwollaAuthLinks) ==
    [customerId |-> args.bankName,
     fundingSourceName |-> args.dwollaCustomerId,
     plaidToken |-> args.processorToken,
     _links |-> dwollaAuthLinks]

\* const fundingSourceOptions = {...}
FundingSourceOptions(args, dwollaAuthLinks) ==
    [customerId |-> args.dwollaCustomerId,
     fundingSourceName |-> args.bankName,
     plaidToken |-> args.processorToken,
     _links |-> dwollaAuthLinks]

\* A bug addFundingSource_authorized could have: the outcome of the
\* authorization is not looked at before createFundingSource is called.
addFundingSource_authorizedUnchecked(p) ==
    /\ Running(p, "addFundingSource", "auth_settled")
    /\ LET fundingSourceOptions ==
               FundingSourceOptions(proc[p].args,
                                    IF proc[p].resp.kind = "ok"
                                    THEN proc[p].resp.val ELSE "undefined")
       IN Step(p, [Resumed(proc[p]) EXCEPT
                     !.pc = "source_sent",
                     !.local = fundingSourceOptions,
                     !.resp = NoResp,
                     !.calls = Append(@, Call("createFundingSource",
                                              fundingSourceOptions))])
    /\ UNCHANGED <<identityVars, fundsVars, checkbookVars, formVars>>

\* The authorization settles: createFundingSource is called, or catch.
addFundingSource_authorized(p) ==
    /\ Running(p, "addFundingSource", "auth_settled")
    /\ \/ /\ proc[p].resp.kind = "ok"
          /\ LET fundingSourceOptions ==
                     FundingSourceOptions(proc[p].args, proc[p].resp.val)
             IN Step(p, [Resumed(proc[p]) EXCEPT
                           !.pc = "source_sent",
                           !.local = fundingSourceOptions,
                           !.resp = NoResp,
                           !.calls = Append(@, Call("createFundingSource",
                                                    fundingSourceOptions))])
       \/ /\ proc[p].resp.kind = "error"
          /\ Step(p, CatchLog(Resumed(proc[p])))
    /\ UNCHANGED <<identityVars, fundsVars, checkbookVars, formVars>>

\* A bug addFundingSource_created could have: the result is awaited but not
\* returned.
addFundingSource_createdNoReturn(p) ==
    /\ Running(p, "addFundingSource", "source_settled")
    /\ \/ /\ proc[p].resp.kind = "ok"
          /\ Step(p, Return(Resumed(proc[p]), Undefined))
       \/ /\ proc[p].resp.kind = "error"
          /\ Step(p, CatchLog(Resumed(proc[p])))
    /\ UNCHANGED <<identityVars, fundsVars, checkbookVars, formVars>>

\* createFundingSource settles: return what it gave, or catch.
addFundingSource_created(p) ==
    /\ Running(p, "addFundingSource", "source_settled")
    /\ \/ /\ proc[p].resp.kind = "ok"
          /\ Step(p, Return(Resumed(proc[p]), proc[p].resp.val))
       \/ /\ proc[p].resp.kind = "error"
          /\ Step(p, CatchLog(Resumed(proc[p])))
    /\ UNCHANGED <<identityVars, fundsVars, checkbookVars, formVars>>

----------------------------------------------------------------------------
(* createTransfer *)

\* A bug RequestBody could have: the two fields of amount are swapped.
RequestBodySwapped(sourceFundingSourceUrl, destinationFundingSourceUrl, amount) ==
    [_links |-> [source |-> [href |-> sourceFundingSourceUrl],
                 destination |-> [href |-> destinationFundingSourceUrl]],
     amount |-> [currency |-> amount, value |-> "USD"]]

\* const requestBody = {...}
RequestBody(sourceFundingSourceUrl, destinationFundingSourceUrl, amount) ==
    [_links |-> [source |-> [href |-> sourceFundingSourceUrl],
                 destination |-> [href |-> destinationFundingSourceUrl]],
     amount |-> [currency |-> "USD", value |-> amount]]

\* A bug createTransfer could have: an amount that is not positive, or a
\* transfer from a funding source to itself, is refused before any request.
createTransferValidated(p, sourceFundingSourceUrl, destinationFundingSourceUrl, amount) ==
    /\ proc[p].pc = "idle"
    /\ amount \notin {"-5.00", "0"}
    /\ sourceFundingSourceUrl # destinationFundingSourceUrl
    /\ LET requestBody == RequestBody(sourceFundingSourceUrl,
                                      destinationFundingSourceUrl, amount)
       IN Step(p, [Idle EXCEPT
                     !.op = "createTransfer", !.pc = "transfer_sent",
                     !.args = [sourceFundingSourceUrl |-> sourceFundingSourceUrl,
                               destinationFundingSourceUrl |-> destinationFundingSourceUrl,
                               amount |-> amount],
                     !.local = requestBody,
                     !.calls = <<Call("dwollaClient.post",
                                      [path |-> "transfers", body |-> requestBody])>>])
    /\ UNCHANGED <<identityVars, fundsVars, checkbookVars, formVars>>

\* A bug createTransfer could have: a request equal to one the network
\* already holds is not submitted again.
createTransferDeduplicated(p, sourceFundingSourceUrl, destinationFundingSourceUrl, amount) ==
    /\ proc[p].pc = "idle"
    /\ LET requestBody == RequestBody(sourceFundingSourceUrl,
                                      destinationFundingSourceUrl, amount)
       IN /\ \A i \in DOMAIN transfers : transfers[i] # requestBody
          /\ Step(p, [Idle EXCEPT
                        !.op = "createTransfer", !.pc = "transfer_sent",
                        !.args = [sourceFundingSourceUrl |-> sourceFundingSourceUrl,
                                  destinationFundingSourceUrl |-> destinationFundingSourceUrl,
                                  amount |-> amount],
                        !.local = requestBody,
                        !.calls = <<Call("dwollaClient.post",
                                         [path |-> "transfers", body |-> requestBody])>>])
    /\ UNCHANGED <<identityVars, fundsVars, checkbookVars, formVars>>

createTransfer(p, sourceFundingSourceUrl, destinationFundingSourceUrl, amount) ==
    /\ proc[p].pc = "idle"
    /\ LET requestBody == RequestBody(sourceFundingSourceUrl,
                                      destinationFundingSourceUrl, amount)
       IN Step(p, [Idle EXCEPT
                     !.op = "createTransfer", !.pc = "transfer_sent",
                     !.args = [sourceFundingSourceUrl |-> sourceFundingSourceUrl,
                               destinationFundingSourceUrl |-> destinationFundingSourceUrl,
                               amount |-> amount],
                     !.local = requestBody,
                     !.calls = <<Call("dwollaClient.post",
                                      [path |-> "transfers", body |-> requestBody])>>])
    /\ UNCHANGED <<identityVars, fundsVars, checkbookVars, formVars>>

\* A bug createTransfer_posted could have: the response itself is returned.
createTransfer_postedWholeResponse(p) ==
    /\ Running(p, "createTransfer", "transfer_settled")
    /\ \/ /\ proc[p].resp.kind = "ok"
          /\ Step(p, Return(Resumed(proc[p]), proc[p].resp.val))
       \/ /\ proc[p].resp.kind = "error"
          /\ Step(p, CatchLog(Resumed(proc[p])))
    /\ UNCHANGED <<identityVars, fundsVars, checkbookVars, formVars>>

\* A bug createTransfer_posted could have: a failed POST is sent again.
createTransfer_postedRetrying(p) ==
    /\ Running(p, "createTransfer", "transfer_settled")
    /\ \/ /\ proc[p].resp.kind = "ok"
          /\ Step(p, Return(Resumed(proc[p]), proc[p].resp.val.headers.location))
       \/ /\ proc[p].resp.kind = "error"
          /\ Step(p, [Resumed(proc[p]) EXCEPT
                        !.pc = "transfer_sent",
                        !.resp = NoResp,
                        !.calls = Append(@, Call("dwollaClient.post",
                                                 [path |-> "transfers",
                                                  body |-> proc[p].local]))])
    /\ UNCHANGED <<identityVars, fundsVars, checkbookVars, formVars>>

\* A bug createTransfer_posted could have: a failed transfer takes the
\* funding sources registered before it back out.
createTransfer_postedCompensating(p) ==
    /\ Running(p, "createTransfer", "transfer_settled")
    /\ \/ /\ proc[p].resp.kind = "ok"
          /\ Step(p, Return(Resumed(proc[p]), proc[p].resp.val.headers.location))
          /\ UNCHANGED fundingSources
       \/ /\ proc[p].resp.kind = "error"
          /\ Step(p, CatchLog(Resumed(proc[p])))
          /\ fundingSources' = {}
    /\ UNCHANGED <<identityVars, transfers, checkbookVars, formVars>>

\* The POST settles: return the location header, or catch.
createTransfer_posted(p) ==
    /\ Running(p, "createTransfer", "transfer_settled")
    /\ \/ /\ proc[p].resp.kind = "ok"
          /\ Step(p, Return(Resumed(proc[p]), proc[p].resp.val.headers.location))
       \/ /\ proc[p].resp.kind = "error"
          /\ Step(p, CatchLog(Resumed(proc[p])))
    /\ UNCHANGED <<identityVars, fundsVars, checkbookVars, formVars>>

----------------------------------------------------------------------------
(* The money-movement actions alone *)

FundsNext ==
    \E p \in Procs :
        \/ \E c \in DwollaCustomerIds, t \in ProcessorTokens, b \in BankNames :
              addFundingSource(p, c, t, b)
        \/ addFundingSource_authorized(p)
        \/ addFundingSource_created(p)
        \/ \E s \in SourceUrls, d \in DestinationUrls, a \in Amounts :
              createTransfer(p, s, d, a)
        \/ createTransfer_posted(p)
        \/ createOnDemandAuthorization(p)
        \/ createFundingSource(p)
        \/ dwollaClientPost(p)
        \/ Finish(p)

SpecFunds == Init /\ [][FundsNext]_vars

----------------------------------------------------------------------------
(* Generated checkbook client (src/.api/apis/checkbook-docs/index.ts) *)

\* this.core.fetch(path, method, body): the request it sends.
Fetch(path, method, body) == [path |-> path, method |-> method, body |-> body]

postUser(body) == Fetch("/v3/user", "post", body)

postBankPlaid(body) == Fetch("/v3/account/bank/iav/plaid", "post", body)

\* A request goes out and its promise is handed back; `caught` says whether
\* the caller chained a .catch on it.  Nothing awaits the promise.
Detached(p, request, caught) ==
    [owner |-> p, request |-> request, caught |-> caught]

Remove(seq, i) == SubSeq(seq, 1, i - 1) \o SubSeq(seq, i + 1, Len(seq))

\* The platform accepts request i: the promise fulfils and the .then callback
\* logs the data.
fetchFulfilled(i) ==
    /\ i \in DOMAIN pending
    /\ checkbook' = checkbook \cup {pending[i].request}
    /\ pending' = Remove(pending, i)
    /\ UNCHANGED <<proc, identityVars, fundsVars, sdkAuth, sdkConfig, sdkServer,
                 rejected, formVars>>

\* Request i fails: the promise rejects, and the rejection reaches the .catch
\* callback if there is one.
fetchRejected(i) ==
    /\ i \in DOMAIN pending
    /\ rejected' = rejected \cup {[request |-> pending[i].request,
                                   caught |-> pending[i].caught]}
    /\ pending' = Remove(pending, i)
    /\ UNCHANGED <<proc, identityVars, fundsVars, sdkAuth, sdkConfig, sdkServer,
                 checkbook, formVars>>

----------------------------------------------------------------------------
(* createCheckbookCustomer and connectToBankPlaid *)

\* sdk.auth(`${api_key}:${api_secret}`)
Credentials == api_key \o ":" \o api_secret

\* A bug createCheckbookCustomer could have: the name is joined with a
\* space, as signUp joins it.
createCheckbookCustomerSpacedName(p, firstName, lastName, email) ==
    /\ proc[p].pc = "idle"
    /\ Len(pending) < MaxPending
    /\ LET request == postUser([name |-> firstName \o " " \o lastName,
                                user_id |-> email])
       IN /\ sdkAuth' = Credentials
          /\ pending' = Append(pending, Detached(p, request, FALSE))
          /\ Step(p, Return([Idle EXCEPT
                               !.op = "createCheckbookCustomer",
                               !.calls = <<Call("sdk.auth", [credentials |-> Credentials]),
                                           Call("sdk.postUser", request.body)>>],
                            Undefined))
    /\ UNCHANGED <<identityVars, fundsVars, sdkConfig, sdkServer, checkbook,
                 rejected, formVars>>

\* The whole body runs without an await: sdk.auth, sdk.postUser(...).then(...)
\* with no .catch, and the function ends without a return statement.
createCheckbookCustomer(p, firstName, lastName, email) ==
    /\ proc[p].pc = "idle"
    /\ Len(pending) < MaxPending
    /\ LET request == postUser([name |-> firstName \o "_" \o lastName,
                                user_id |-> email])
       IN /\ sdkAuth' = Credentials
          /\ pending' = Append(pending, Detached(p, request, FALSE))
          /\ Step(p, Return([Idle EXCEPT
                               !.op = "createCheckbookCustomer",
                               !.calls = <<Call("sdk.auth", [credentials |-> Credentials]),
                                           Call("sdk.postUser", request.body)>>],
                            Undefined))
    /\ UNCHANGED <<identityVars, fundsVars, sdkConfig, sdkServer, checkbook,
                 rejected, formVars>>

\* The whole body runs without an await: sdk.auth,
\* sdk.postBankPlaid(...).then(...).catch(...), and no return statement.
connectToBankPlaid(p, plaidToken) ==
    /\ proc[p].pc = "idle"
    /\ Len(pending) < MaxPending
    /\ LET request == postBankPlaid([processor_token |-> plaidToken])
       IN /\ sdkAuth' = Credentials
          /\ pending' = Append(pending, Detached(p, request, TRUE))
          /\ Step(p, Return([Idle EXCEPT
                               !.op = "connectToBankPlaid",
                               !.calls = <<Call("sdk.auth", [credentials |-> Credentials]),
                                           Call("sdk.postBankPlaid", request.body)>>],
                            Undefined))
    /\ UNCHANGED <<identityVars, fundsVars, sdkConfig, sdkServer, checkbook,
                 rejected, formVars>>

----------------------------------------------------------------------------
(* The checkbook actions alone *)

CheckbookNext ==
    \/ \E p \in Procs :
        \/ \E f \in FirstNames, l \in LastNames, e \in Emails :
              createCheckbookCustomer(p, f, l, e)
        \/ \E t \in ProcessorTokens : connectToBankPlaid(p, t)
        \/ Finish(p)
    \/ \E i \in 1..MaxPending :
        \/ fetchFulfilled(i)
        \/ fetchRejected(i)

SpecCheckbook == Init /\ [][CheckbookNext]_vars

----------------------------------------------------------------------------
(* Reading a trace of calls *)

\* The positions in trace tr where `name` is called.
Made(tr, name) == {i \in DOMAIN tr : tr[i].name = name}

\* How the call at position i settled; NoResp while it is in flight.
Outcome(tr, i) == IF i < Len(tr) /\ tr[i + 1].name = "settled"
                  THEN tr[i + 1].arg ELSE NoResp

Succeeded(tr, name) == \E i \in Made(tr, name) : Outcome(tr, i).kind = "ok"
Failed(tr, name) == \E i \in Made(tr, name) : Outcome(tr, i).kind = "error"

Done(p, op) == proc[p].op = op /\ proc[p].pc = "done"

----------------------------------------------------------------------------
(* The generated client called directly: config, auth, server and the      *)
(* methods that reach the platform                                         *)

\* The methods of class SDK that call this.core.fetch: the name, the path and
\* the verb each one passes, and the parameters of its signature in order.
Operations == {
    [name |-> "getBanks", path |-> "/v3/account/bank",
     method |-> "get", takes |-> <<>>],
    [name |-> "postBank", path |-> "/v3/account/bank",
     method |-> "post", takes |-> <<"body">>],
    [name |-> "postBankIav", path |-> "/v3/account/bank/iav",
     method |-> "post", takes |-> <<"body">>],
    [name |-> "postBankPlaid", path |-> "/v3/account/bank/iav/plaid",
     method |-> "post", takes |-> <<"body">>],
    [name |-> "getBankInstitutions", path |-> "/v3/account/bank/institutions",
     method |-> "get", takes |-> <<>>],
    [name |-> "postBankRelease", path |-> "/v3/account/bank/release",
     method |-> "post", takes |-> <<"body">>],
    [name |-> "postBankVerify", path |-> "/v3/account/bank/verify",
     method |-> "post", takes |-> <<"body">>],
    [name |-> "deleteBank", path |-> "/v3/account/bank/{bank_id}",
     method |-> "delete", takes |-> <<"metadata">>],
    [name |-> "putBank", path |-> "/v3/account/bank/{bank_id}",
     method |-> "put", takes |-> <<"body", "metadata">>],
    [name |-> "getCards", path |-> "/v3/account/card",
     method |-> "get", takes |-> <<>>],
    [name |-> "postCard", path |-> "/v3/account/card",
     method |-> "post", takes |-> <<"body">>],
    [name |-> "deleteCard", path |-> "/v3/account/card/{card_id}",
     method |-> "delete", takes |-> <<"metadata">>],
    [name |-> "putCard", path |-> "/v3/account/card/{card_id}",
     method |-> "put", takes |-> <<"body", "metadata">>],
    [name |-> "get_paypal", path |-> "/v3/account/paypal",
     method |-> "get", takes |-> <<>>],
    [name |-> "add_paypal", path |-> "/v3/account/paypal",
     method |-> "post", takes |-> <<"body">>],
    [name |-> "remove_paypal", path |-> "/v3/account/paypal/{paypal_id}",
     method |-> "delete", takes |-> <<"metadata">>],
    [name |-> "put_paypal", path |-> "/v3/account/paypal/{paypal_id}",
     method |-> "put", takes |-> <<"body", "metadata">>],
    [name |-> "getVccs", path |-> "/v3/account/vcc",
     method |-> "get", takes |-> <<>>],
    [name |-> "postVcc", path |-> "/v3/account/vcc",
     method |-> "post", takes |-> <<"body">>],
    [name |-> "deleteVcc", path |-> "/v3/account/vcc/{vcc_id}",
     method |-> "delete", takes |-> <<"metadata">>],
    [name |-> "putVcc", path |-> "/v3/account/vcc/{vcc_id}",
     method |-> "put", takes |-> <<"body", "metadata">>],
    [name |-> "getVccTransaction", path |-> "/v3/account/vcc/{vcc_id}/transaction",
     method |-> "get", takes |-> <<"metadata">>],
    [name |-> "get_venmo", path |-> "/v3/account/venmo",
     method |-> "get", takes |-> <<>>],
    [name |-> "add_venmo", path |-> "/v3/account/venmo",
     method |-> "post", takes |-> <<"body">>],
    [name |-> "remove_venmo", path |-> "/v3/account/venmo/{venmo_id}",
     method |-> "delete", takes |-> <<"metadata">>],
    [name |-> "put_venmo", path |-> "/v3/account/venmo/{venmo_id}",
     method |-> "put", takes |-> <<"body", "metadata">>],
    [name |-> "add_wallet", path |-> "/v3/account/wallet",
     method |-> "post", takes |-> <<"body">>],
    [name |-> "get_zelle", path |-> "/v3/account/zelle",
     method |-> "get", takes |-> <<>>],
    [name |-> "add_zelle", path |-> "/v3/account/zelle",
     method |-> "post", takes |-> <<"body">>],
    [name |-> "put_zelle", path |-> "/v3/account/zelle/{account_id}",
     method |-> "put", takes |-> <<"body", "metadata">>],
    [name |-> "remove_zelle", path |-> "/v3/account/zelle/{zelle_id}",
     method |-> "delete", takes |-> <<"metadata">>],
    [name |-> "getApprovalChecks", path |-> "/v3/approval",
     method |-> "get", takes |-> <<"metadata">>],
    [name |-> "postApprovalDigital", path |-> "/v3/approval/digital",
     method |-> "post", takes |-> <<"body">>],
    [name |-> "postApprovalMulti", path |-> "/v3/approval/multi",
     method |-> "post", takes |-> <<"body">>],
    [name |-> "postApprovalPhysical", path |-> "/v3/approval/physical",
     method |-> "post", takes |-> <<"body">>],
    [name |-> "postApprovalRelease", path |-> "/v3/approval/release",
     method |-> "post", takes |-> <<"body">>],
    [name |-> "deleteApprovalCheck", path |-> "/v3/approval/{lockbox_id}",
     method |-> "delete", takes |-> <<"metadata">>],
    [name |-> "getApprovalCheck", path |-> "/v3/approval/{lockbox_id}",
     method |-> "get", takes |-> <<"metadata">>],
    [name |-> "putApprovalCheck", path |-> "/v3/approval/{lockbox_id}",
     method |-> "put", takes |-> <<"body", "metadata">>],
    [name |-> "getApprovalAttachment", path |-> "/v3/approval/{lockbox_id}/attachment",
     method |-> "get", takes |-> <<"metadata">>],
    [name |-> "getChecks", path |-> "/v3/check",
     method |-> "get", takes |-> <<"metadata">>],
    [name |-> "postCheckDeposit", path |-> "/v3/check/deposit/{check_id}",
     method |-> "post", takes |-> <<"body", "metadata">>],
    [name |-> "postCheckDigital", path |-> "/v3/check/digital",
     method |-> "post", takes |-> <<"body">>],
    [name |-> "postCheckEndorse", path |-> "/v3/check/endorse/{check_id}",
     method |-> "post", takes |-> <<"body", "metadata">>],
    [name |-> "postCheckMulti", path |-> "/v3/check/multi",
     method |-> "post", takes |-> <<"body">>],
    [name |-> "postCheckPhysical", path |-> "/v3/check/physical",
     method |-> "post", takes |-> <<"body">>],
    [name |-> "postCheckPreview", path |-> "/v3/check/preview",
     method |-> "post", takes |-> <<"body">>],
    [name |-> "postCheckPrint", path |-> "/v3/check/print/{check_id}",
     method |-> "post", takes |-> <<"metadata">>],
    [name |-> "post_check_webhook", path |-> "/v3/check/webhook/{check_id}",
     method |-> "put", takes |-> <<"body", "metadata">>],
    [name |-> "deleteCheck", path |-> "/v3/check/{check_id}",
     method |-> "delete", takes |-> <<"metadata">>],
    [name |-> "getCheck", path |-> "/v3/check/{check_id}",
     method |-> "get", takes |-> <<"metadata">>],
    [name |-> "getCheckAttachment", path |-> "/v3/check/{check_id}/attachment",
     method |-> "get", takes |-> <<"metadata">>],
    [name |-> "getCheckDeposit", path |-> "/v3/check/{check_id}/deposit",
     method |-> "get", takes |-> <<"metadata">>],
    [name |-> "getCheckFail", path |-> "/v3/check/{check_id}/fail",
     method |-> "get", takes |-> <<"metadata">>],
    [name |-> "getCheckTracking", path |-> "/v3/check/{check_id}/tracking",
     method |-> "get", takes |-> <<"metadata">>],
    [name |-> "getDirectory", path |-> "/v3/directory",
     method |-> "get", takes |-> <<"metadata">>],
    [name |-> "createDirectory", path |-> "/v3/directory",
     method |-> "post", takes |-> <<"body">>],
    [name |-> "deleteDirectory", path |-> "/v3/directory/{directory_id}",
     method |-> "delete", takes |-> <<"metadata">>],
    [name |-> "updateDirectory", path |-> "/v3/directory/{directory_id}",
     method |-> "put", takes |-> <<"body", "metadata">>],
    [name |-> "createDirectoryBank", path |-> "/v3/directory/{directory_id}/account/bank",
     method |-> "post", takes |-> <<"body", "metadata">>],
    [name |-> "createDirectoryCard", path |-> "/v3/directory/{directory_id}/account/card",
     method |-> "post", takes |-> <<"body", "metadata">>],
    [name |-> "deleteDirectoryAccount", path |-> "/v3/directory/{directory_id}/account/{account_id}",
     method |-> "delete", takes |-> <<"metadata">>],
    [name |-> "getInvoices", path |-> "/v3/invoice",
     method |-> "get", takes |-> <<"metadata">>],
    [name |-> "postInvoice", path |-> "/v3/invoice",
     method |-> "post", takes |-> <<"body">>],
    [name |-> "postInvoicePayment", path |-> "/v3/invoice/payment",
     method |-> "post", takes |-> <<"body">>],
    [name |-> "deleteInvoice", path |-> "/v3/invoice/{invoice_id}",
     method |-> "delete", takes |-> <<"metadata">>],
    [name |-> "getInvoice", path |-> "/v3/invoice/{invoice_id}",
     method |-> "get", takes |-> <<"metadata">>],
    [name |-> "getInvoiceAttachment", path |-> "/v3/invoice/{invoice_id}/attachment",
     method |-> "get", takes |-> <<"metadata">>],
    [name |-> "getSubscriptions", path |-> "/v3/subscription",
     method |-> "get", takes |-> <<"metadata">>],
    [name |-> "postSubscriptionCheck", path |-> "/v3/subscription/check",
     method |-> "post", takes |-> <<"body">>],
    [name |-> "postSubscriptionInvoice", path |-> "/v3/subscription/invoice",
     method |-> "post", takes |-> <<"body">>],
    [name |-> "deleteSubscription", path |-> "/v3/subscription/{subscription_id}",
     method |-> "delete", takes |-> <<"metadata">>],
    [name |-> "getSubscription", path |-> "/v3/subscription/{subscription_id}",
     method |-> "get", takes |-> <<"metadata">>],
    [name |-> "putSubscription", path |-> "/v3/subscription/{subscription_id}",
     method |-> "put", takes |-> <<"body", "metadata">>],
    [name |-> "getUser", path |-> "/v3/user",
     method |-> "get", takes |-> <<>>],
    [name |-> "postUser", path |-> "/v3/user",
     method |-> "post", takes |-> <<"body">>],
    [name |-> "putUser", path |-> "/v3/user",
     method |-> "put", takes |-> <<"body">>],
    [name |-> "getApiKeys", path |-> "/v3/user/api_key",
     method |-> "get", takes |-> <<>>],
    [name |-> "newApiKey", path |-> "/v3/user/api_key",
     method |-> "post", takes |-> <<"body">>],
    [name |-> "deleteApiKey", path |-> "/v3/user/api_key/{key_id}",
     method |-> "delete", takes |-> <<"metadata">>],
    [name |-> "getUsers", path |-> "/v3/user/list",
     method |-> "get", takes |-> <<"metadata">>],
    [name |-> "postUserSignature", path |-> "/v3/user/signature",
     method |-> "post", takes |-> <<"body">>],
    [name |-> "deleteUser", path |-> "/v3/user/{user_id}",
     method |-> "delete", takes |-> <<"metadata">>]}

Bodies == {"body-1"}
Metadatas == {"metadata-1"}
Configs == {[timeout |-> 1000]}
ServerUrls == {"https://sandbox.checkbook.io"}

\* The arguments of a call to a method with the parameters `takes`.
Arguments(takes, body, metadata) ==
    [i \in DOMAIN takes |-> IF takes[i] = "body" THEN body ELSE metadata]

\* config(config) { this.core.setConfig(config) }
config(c) ==
    /\ sdkConfig' = c
    /\ UNCHANGED <<proc, identityVars, fundsVars, sdkAuth, sdkServer, pending,
                   checkbook, rejected, formVars>>

\* auth(...values) { this.core.setAuth(...values); return this }
auth(values) ==
    /\ sdkAuth' = values
    /\ UNCHANGED <<proc, identityVars, fundsVars, sdkConfig, sdkServer, pending,
                   checkbook, rejected, formVars>>

\* server(url) { this.core.setServer(url, variables) }
server(url) ==
    /\ sdkServer' = url
    /\ UNCHANGED <<proc, identityVars, fundsVars, sdkAuth, sdkConfig, pending,
                   checkbook, rejected, formVars>>

\* A bug apiMethod could have: a method that takes a body and metadata
\* passes the body alone.
apiMethodDroppingMetadata(p, o, body, metadata) ==
    /\ proc[p].pc = "idle"
    /\ LET given == Arguments(o.takes, body, metadata)
       IN Step(p, [Idle EXCEPT
                     !.op = o.name, !.pc = "fetch_sent",
                     !.args = [given |-> given],
                     !.calls = <<Call("core.fetch",
                                      [path |-> o.path, method |-> o.method,
                                       rest |-> IF Len(given) = 2
                                                THEN <<given[1]>> ELSE given])>>])
    /\ UNCHANGED <<identityVars, fundsVars, checkbookVars, formVars>>

\* Method o of the client is called: return this.core.fetch(path, verb,
\* ...arguments).
apiMethod(p, o, body, metadata) ==
    /\ proc[p].pc = "idle"
    /\ LET given == Arguments(o.takes, body, metadata)
       IN Step(p, [Idle EXCEPT
                     !.op = o.name, !.pc = "fetch_sent",
                     !.args = [given |-> given],
                     !.calls = <<Call("core.fetch",
                                      [path |-> o.path, method |-> o.method,
                                       rest |-> given])>>])
    /\ UNCHANGED <<identityVars, fundsVars, checkbookVars, formVars>>

\* this.core.fetch as the platform handles it: a response, or a failure.
coreFetch(p) ==
    /\ proc[p].pc = "fetch_sent"
    /\ \/ Step(p, [proc[p] EXCEPT
                     !.pc = "fetch_settled",
                     !.resp = Ok([status |-> 200,
                                  data |-> [of |-> proc[p].calls[1].arg]])])
       \/ Step(p, [proc[p] EXCEPT !.pc = "fetch_settled", !.resp = Err])
    /\ UNCHANGED <<identityVars, fundsVars, checkbookVars, formVars>>

\* The promise rejects: the caller's await throws.
Throw(r) ==
    [r EXCEPT !.pc = "done", !.threw = TRUE, !.resp = NoResp, !.args = NoArgs,
              !.client = NoClient, !.local = Undefined]

\* The promise the method returned is the one this.core.fetch gave: it
\* fulfils with the response, or rejects.
apiMethod_settled(p) ==
    /\ proc[p].pc = "fetch_settled"
    /\ \/ /\ proc[p].resp.kind = "ok"
          /\ Step(p, Return(Resumed(proc[p]), proc[p].resp.val))
       \/ /\ proc[p].resp.kind = "error"
          /\ Step(p, Throw(Resumed(proc[p])))
    /\ UNCHANGED <<identityVars, fundsVars, checkbookVars, formVars>>

SdkNext ==
    \/ \E p \in Procs :
        \/ \E o \in Operations, b \in Bodies, m \in Metadatas :
              apiMethod(p, o, b, m)
        \/ coreFetch(p)
        \/ apiMethod_settled(p)
        \/ Finish(p)
    \/ \E c \in Configs \cup {DefaultConfig} : config(c)
    \/ \E v \in {Credentials} : auth(v)
    \/ \E u \in ServerUrls \cup {api_base_url} : server(u)

SpecSdk == Init /\ [][SdkNext]_vars

----------------------------------------------------------------------------
(* Claims about the money-movement actions, under SpecFunds *)

C2_TransferCurrencyIsUSD ==
    /\ \A i \in DOMAIN transfers : transfers[i].amount.currency = "USD"
    /\ \A p \in Procs :
          \A i \in Made(proc[p].calls, "dwollaClient.post") :
              proc[p].calls[i].arg.body.amount.currency = "USD"

\* C2 witness: the network has received transfers for two different inputs.
C2_Witness ==
    \E i, j \in DOMAIN transfers :
        /\ transfers[i].amount.value # transfers[j].amount.value
        /\ transfers[i]._links.source # transfers[j]._links.source

\* C7: a finished addFundingSource has returned what createFundingSource
\* resolved with when both steps succeeded, and has logged and returned
\* undefined when either step failed; it never throws.
C7_AddFundingSourceResult ==
    \A p \in Procs :
        Done(p, "addFundingSource") =>
            LET tr == proc[p].calls
            IN /\ \A i \in Made(tr, "createFundingSource") :
                    Outcome(tr, i).kind = "ok"
                      => /\ Succeeded(tr, "createOnDemandAuthorization")
                         /\ proc[p].ret = Outcome(tr, i).val
                         /\ proc[p].ret.options \in fundingSources
               /\ (Failed(tr, "createOnDemandAuthorization")
                     \/ Failed(tr, "createFundingSource"))
                    => proc[p].ret = Undefined /\ proc[p].logged
               /\ ~proc[p].threw

\* C7 witness: an addFundingSource has returned a funding source.
C7_Witness ==
    \E p \in Procs :
        /\ Done(p, "addFundingSource")
        /\ Succeeded(proc[p].calls, "createFundingSource")
        /\ proc[p].ret # Undefined

\* C8: a finished createTransfer has returned the location header of the
\* response when the POST succeeded, and undefined, without throwing, when
\* the POST failed.
C8_CreateTransferResult ==
    \A p \in Procs :
        Done(p, "createTransfer") =>
            LET tr == proc[p].calls
            IN /\ \A i \in Made(tr, "dwollaClient.post") :
                    /\ tr[i].arg.path = "transfers"
                    /\ Outcome(tr, i).kind = "ok"
                         => proc[p].ret = Outcome(tr, i).val.headers.location
                    /\ Outcome(tr, i).kind = "error"
                         => proc[p].ret = Undefined
               /\ Made(tr, "dwollaClient.post") # {}
               /\ ~proc[p].threw

\* C8 witness: a createTransfer has returned the location of a transfer.
C8_Witness ==
    \E p \in Procs :
        /\ Done(p, "createTransfer")
        /\ proc[p].ret = Location(Len(transfers))

----------------------------------------------------------------------------
(* Claims about the identity actions, under SpecIdentity *)

Succeeds(p) == proc[p].ret # Undefined /\ proc[p].ret # Null

\* The trace tr holds a successful cookies().set of exactly the session
\* cookie, whose value is the secret of a session that a
\* createEmailPasswordSession call earlier in tr resolved with.
SetsSessionCookie(tr) ==
    \E i \in Made(tr, "cookies.set") :
        /\ Outcome(tr, i).kind = "ok"
        /\ \E j \in Made(tr, "account.createEmailPasswordSession") :
              /\ j < i
              /\ Outcome(tr, j).kind = "ok"
              /\ tr[i].arg = [name |-> "appwrite-session",
                              value |-> Outcome(tr, j).val.secret,
                              path |-> "/", httpOnly |-> TRUE,
                              sameSite |-> "strict", secure |-> TRUE]

\* The step in which the invocation in slot p returns a value.
ReturnsValue(p, op) ==
    /\ Running(p, op, "session_settled")
    /\ proc'[p].pc = "done"
    /\ proc'[p].ret # Undefined

\* C3: a signIn or signUp that has completed successfully has set the
\* "appwrite-session" cookie with path=/, httpOnly, sameSite=strict, secure
\* and the secret of the session created in the same invocation; the step
\* that returns leaves the browser with exactly that cookie.
C3_SessionCookieOnSuccess ==
    /\ [](\A p \in Procs :
            (Done(p, "signIn") \/ Done(p, "signUp")) /\ Succeeds(p)
                => SetsSessionCookie(proc[p].calls))
    /\ [][\A p \in Procs :
            ReturnsValue(p, "signIn") \/ ReturnsValue(p, "signUp")
                => cookie' = [name |-> "appwrite-session",
                              value |-> proc[p].resp.val.secret,
                              path |-> "/", httpOnly |-> TRUE,
                              sameSite |-> "strict", secure |-> TRUE]]_vars

\* C3 witness: a signUp has returned the new account and the cookie is set.
C3_Witness ==
    \E p \in Procs :
        /\ Done(p, "signUp")
        /\ Succeeds(p)
        /\ cookie # NoCookie

\* C4 as claimed: every logoutAccount attempts the cookie deletion, and the
\* vendor's session deletion is requested only after it.
C4_EveryLogoutDeletesCookie ==
    \A p \in Procs :
        LET tr == proc[p].calls
        IN /\ Done(p, "logoutAccount") => Made(tr, "cookies.delete") # {}
           /\ \A j \in Made(tr, "account.deleteSession") :
                \E i \in Made(tr, "cookies.delete") : i < j

\* C4 as amended: a logoutAccount whose createSessionClient succeeds attempts
\* the cookie deletion, and requests the vendor's session deletion only after
\* it; one whose createSessionClient throws attempts neither.
C4_LogoutDeletesCookieFirst ==
    \A p \in Procs :
        LET tr == proc[p].calls
        IN /\ Done(p, "logoutAccount") /\ Succeeded(tr, "createSessionClient")
                => Made(tr, "cookies.delete") # {}
           /\ Failed(tr, "createSessionClient")
                => /\ Made(tr, "cookies.delete") = {}
                   /\ Made(tr, "account.deleteSession") = {}
           /\ \A j \in Made(tr, "account.deleteSession") :
                \E i \in Made(tr, "cookies.delete") :
                    i < j /\ Outcome(tr, i) # NoResp

\* C4 witness: a logoutAccount has deleted the cookie and then asked the
\* vendor to delete the session.
C4_Witness ==
    \E p \in Procs :
        /\ Done(p, "logoutAccount")
        /\ Made(proc[p].calls, "account.deleteSession") # {}

\* C5: a finished logoutAccount has returned true or undefined; true only
\* when the cookie deletion and the vendor's session deletion both completed;
\* undefined when createSessionClient, the cookie deletion or the vendor's
\* deletion threw; and it never throws itself.
C5_LogoutResult ==
    \A p \in Procs :
        Done(p, "logoutAccount") =>
            LET tr == proc[p].calls
            IN /\ proc[p].ret \in {True, Undefined}
               /\ proc[p].ret = True
                    => /\ Succeeded(tr, "cookies.delete")
                       /\ Succeeded(tr, "account.deleteSession")
               /\ (Failed(tr, "createSessionClient")
                     \/ Failed(tr, "cookies.delete")
                     \/ Failed(tr, "account.deleteSession"))
                    => proc[p].ret = Undefined
               /\ ~proc[p].threw

\* C5 witness: a logoutAccount whose vendor deletion threw has returned.
C5_Witness ==
    \E p \in Procs :
        /\ Done(p, "logoutAccount")
        /\ Failed(proc[p].calls, "account.deleteSession")

----------------------------------------------------------------------------
(* Claims about all server actions; refuted under SpecCheckbook *)

\* C9 as claimed: a failure of a vendor call is caught and logged by the
\* action that made the call, which yields undefined (or null); no failure
\* is left as an exception or an unhandled rejection.
C9_EveryFailureCaught ==
    /\ \A p \in Procs :
          proc[p].pc = "done"
            /\ (\E i \in DOMAIN proc[p].calls :
                   /\ proc[p].calls[i].name = "settled"
                   /\ proc[p].calls[i].arg.kind = "error")
              => /\ proc[p].logged
                 /\ proc[p].ret \in {Undefined, Null}
                 /\ ~proc[p].threw
    /\ \A r \in rejected : r.caught

\* C10 as claimed: an action that has returned has no vendor request of its
\* own still in flight.
C10_NothingInFlightAtReturn ==
    \A p \in Procs :
        proc[p].pc = "done"
            => \A i \in DOMAIN pending : pending[i].owner # p

----------------------------------------------------------------------------
(* Claims about the money-movement actions, continued (SpecFunds) *)

C13_TransferSentOnce ==
    /\ [](\A p \in Procs :
            LET tr == proc[p].calls
            IN /\ proc[p].op = "createTransfer"
                    => /\ Made(tr, "dwollaClient.post") = {1}
                       /\ tr[1].arg.path = "transfers"
                       /\ \A i \in DOMAIN tr :
                             tr[i].name \in {"dwollaClient.post", "settled"}
               /\ Done(p, "createTransfer")
                    => proc[p].args = NoArgs /\ proc[p].local = Undefined
               /\ proc[p].pc = "idle" => proc[p] = Idle)
    /\ [][transfers' # transfers
            => \E p \in Procs :
                  /\ Running(p, "createTransfer", "transfer_sent")
                  /\ proc'[p].pc = "transfer_settled"
                  /\ transfers' = Append(transfers, proc[p].calls[1].arg.body)]_vars

\* C13 witness: a createTransfer whose POST failed has returned.
C13_Witness ==
    \E p \in Procs :
        /\ Done(p, "createTransfer")
        /\ Failed(proc[p].calls, "dwollaClient.post")
        /\ proc[p].ret = Undefined

\* C14: a createTransfer whose POST failed has made that one call and
\* nothing else; no step of a createTransfer, and no step of the network on
\* its behalf, changes the registered funding sources, and no step at all
\* takes a registered funding source away.
C14_NoCompensation ==
    /\ [](\A p \in Procs :
            Done(p, "createTransfer") /\ Failed(proc[p].calls, "dwollaClient.post")
                => /\ Len(proc[p].calls) = 2
                   /\ proc[p].calls[1].name = "dwollaClient.post"
                   /\ proc[p].calls[2] = Settled(Err))
    /\ [][/\ fundingSources \subseteq fundingSources'
          /\ \A p \in Procs :
               proc'[p] # proc[p]
                 /\ (proc[p].op = "createTransfer" \/ proc'[p].op = "createTransfer")
                   => fundingSources' = fundingSources]_vars

\* C14 witness: a funding source is registered and a later createTransfer
\* has failed.
C14_Witness ==
    /\ fundingSources # {}
    /\ \E p \in Procs :
          /\ Done(p, "createTransfer")
          /\ Failed(proc[p].calls, "dwollaClient.post")

\* C15: an addFundingSource calls createFundingSource at most once; the
\* request it passes has customerId = dwollaCustomerId, fundingSourceName =
\* bankName, plaidToken = processorToken, and as _links the value that the
\* createOnDemandAuthorization call of the same invocation resolved with.
C15_FundingSourceRequest ==
    \A p \in Procs :
        proc[p].op = "addFundingSource" =>
            LET tr == proc[p].calls
            IN /\ Cardinality(Made(tr, "createFundingSource")) <= 1
               /\ \A i \in Made(tr, "createFundingSource") :
                     /\ DOMAIN tr[i].arg = {"customerId", "fundingSourceName",
                                            "plaidToken", "_links"}
                     /\ \E j \in Made(tr, "createOnDemandAuthorization") :
                           j < i /\ Outcome(tr, j) = Ok(tr[i].arg._links)
                     /\ proc[p].pc # "done"
                          => /\ tr[i].arg.customerId = proc[p].args.dwollaCustomerId
                             /\ tr[i].arg.fundingSourceName = proc[p].args.bankName
                             /\ tr[i].arg.plaidToken = proc[p].args.processorToken

\* C15 witness: the funding-source request is out, built on the second of
\* the authorizations the network may give.
C15_Witness ==
    \E p \in Procs :
        /\ Running(p, "addFundingSource", "source_sent")
        /\ proc[p].local._links = "on-demand-authorization-2"

\* C16: createTransfer validates nothing: a free slot can start it for every
\* source, destination and amount, and the request of a running invocation
\* carries the amount, the source and the destination it was given,
\* unchanged.
C16_NoLocalValidation ==
    \A p \in Procs :
        /\ proc[p].pc = "idle"
             => \A s \in SourceUrls, d \in DestinationUrls, a \in Amounts :
                   ENABLED createTransfer(p, s, d, a)
        /\ proc[p].op = "createTransfer" /\ proc[p].pc # "done"
             => LET body == proc[p].calls[1].arg.body
                IN /\ body = proc[p].local
                   /\ body.amount.value = proc[p].args.amount
                   /\ body._links.source.href = proc[p].args.sourceFundingSourceUrl
                   /\ body._links.destination.href
                        = proc[p].args.destinationFundingSourceUrl

\* C16 witness: the network holds a transfer of a negative amount from a
\* funding source to itself, and one of amount zero.
C16_Witness ==
    /\ \E i \in DOMAIN transfers :
          /\ transfers[i].amount.value = "-5.00"
          /\ transfers[i]._links.source.href = transfers[i]._links.destination.href
    /\ \E i \in DOMAIN transfers : transfers[i].amount.value = "0"

----------------------------------------------------------------------------
(* Claims about the identity actions, continued (SpecIdentity) *)

\* C19: a signIn or signUp whose session request, or whose account.create,
\* threw has not called cookies().set, has returned undefined and has not
\* thrown; and the step in which it sees the failure leaves the cookie as
\* it is.
C19_FailedSignInLeavesCookie ==
    /\ [](\A p \in Procs :
            LET tr == proc[p].calls
            IN proc[p].op \in {"signIn", "signUp"}
                 /\ (Failed(tr, "account.createEmailPasswordSession")
                      \/ Failed(tr, "account.create"))
                   => /\ Made(tr, "cookies.set") = {}
                      /\ proc[p].pc = "done"
                      /\ proc[p].ret = Undefined
                      /\ ~proc[p].threw)
    /\ [][\A p \in Procs :
            proc[p].op \in {"signIn", "signUp"}
              /\ proc[p].resp.kind = "error"
              /\ proc'[p] # proc[p]
                => cookie' = cookie]_vars

\* C19 witness: with a session cookie in the browser, a signIn whose session
\* request threw has returned.
C19_Witness ==
    /\ cookie # NoCookie
    /\ \E p \in Procs :
          /\ Done(p, "signIn")
          /\ Failed(proc[p].calls, "account.createEmailPasswordSession")

\* C20: a finished getLoggedInUser has not thrown; it has returned the
\* account that account.get resolved with, an account of the provider, when
\* createSessionClient and account.get both succeeded, and null, never
\* undefined, when either of them threw; and no step of a getLoggedInUser,
\* nor of the provider on its behalf, changes the cookie, the accounts or
\* the sessions.
C20_GetLoggedInUser ==
    /\ [](\A p \in Procs :
            Done(p, "getLoggedInUser") =>
                LET tr == proc[p].calls
                IN /\ ~proc[p].threw
                   /\ proc[p].ret # Undefined
                   /\ Succeeded(tr, "createSessionClient")
                        /\ Succeeded(tr, "account.get")
                          => /\ \A i \in Made(tr, "account.get") :
                                   Outcome(tr, i) = Ok(proc[p].ret)
                             /\ proc[p].ret \in accounts
                   /\ Failed(tr, "createSessionClient")
                        \/ Failed(tr, "account.get")
                          => proc[p].ret = Null)
    /\ [][\A p \in Procs :
            proc'[p] # proc[p]
              /\ (proc[p].op = "getLoggedInUser"
                   \/ proc'[p].op = "getLoggedInUser")
                => UNCHANGED identityVars]_vars

\* C20 witness: a getLoggedInUser whose account.get threw has returned null.
C20_Witness ==
    \E p \in Procs :
        /\ Done(p, "getLoggedInUser")
        /\ Failed(proc[p].calls, "account.get")
        /\ proc[p].ret = Null

\* C21: in a signUp, account.create comes first, the session request is
\* made only after account.create has succeeded, and cookies().set only
\* after the session request has succeeded; a signUp whose session request
\* failed after its account.create succeeded has left the account with the
\* provider, has not called cookies().set, has returned undefined, and has
\* made no call other than createAdminClient, account.create and the
\* session request.
C21_SignUpOrder ==
    \A p \in Procs :
        proc[p].op = "signUp" =>
            LET tr == proc[p].calls
            IN /\ \A j \in Made(tr, "account.createEmailPasswordSession") :
                     \E i \in Made(tr, "account.create") :
                         i < j /\ Outcome(tr, i).kind = "ok"
               /\ \A k \in Made(tr, "cookies.set") :
                     \E j \in Made(tr, "account.createEmailPasswordSession") :
                         j < k /\ Outcome(tr, j).kind = "ok"
               /\ Cardinality(Made(tr, "account.create")) <= 1
               /\ Succeeded(tr, "account.create")
                    /\ Failed(tr, "account.createEmailPasswordSession")
                      => /\ \A i \in Made(tr, "account.create") :
                               Outcome(tr, i).val \in accounts
                         /\ Made(tr, "cookies.set") = {}
                         /\ proc[p].pc = "done"
                         /\ proc[p].ret = Undefined
                         /\ \A i \in DOMAIN tr :
                               tr[i].name \in {"createAdminClient", "account.create",
                                               "account.createEmailPasswordSession",
                                               "settled"}

\* C21 witness: a signUp has created its account, its session request has
\* failed, and it has returned; the account is there and no cookie is.
C21_Witness ==
    /\ cookie = NoCookie
    /\ accounts # {}
    /\ \E p \in Procs :
          /\ Done(p, "signUp")
          /\ Succeeded(proc[p].calls, "account.create")
          /\ Failed(proc[p].calls, "account.createEmailPasswordSession")

\* C22: a logoutAccount whose createSessionClient succeeded and whose
\* vendor session deletion failed has returned undefined after deleting the
\* cookie, and neither it nor the step that catches the failure writes the
\* cookie back; a logoutAccount whose createSessionClient threw leaves the
\* cookie as it was.
C22_PartialLogout ==
    /\ [](\A p \in Procs :
            LET tr == proc[p].calls
            IN proc[p].op = "logoutAccount" /\ Failed(tr, "account.deleteSession")
                 => /\ Succeeded(tr, "createSessionClient")
                    /\ Succeeded(tr, "cookies.delete")
                    /\ Made(tr, "cookies.set") = {}
                    /\ proc[p].pc = "done"
                    /\ proc[p].ret = Undefined)
    /\ [][\A p \in Procs :
            /\ Running(p, "logoutAccount", "delete_settled") /\ proc'[p] # proc[p]
                 => cookie' = cookie
            /\ Running(p, "logoutAccount", "sessionClient")
                 /\ Failed(proc'[p].calls, "createSessionClient")
                 => /\ cookie' = cookie
                    /\ proc'[p].pc = "done"
                    /\ proc'[p].ret = Undefined]_vars

\* C22 witness: a logoutAccount has returned after the vendor refused to
\* delete the session; the cookie is gone and the session its client was
\* made for is still alive at the vendor.
C22_Witness ==
    \E p \in Procs :
        LET tr == proc[p].calls
        IN /\ Done(p, "logoutAccount")
           /\ Failed(tr, "account.deleteSession")
           /\ cookie = NoCookie
           /\ \E i \in Made(tr, "createSessionClient") :
                 \E s \in sessions : s.secret = Outcome(tr, i).val.secret

----------------------------------------------------------------------------
(* Claims about the session cookie under concurrent requests               *)
(* (SpecIdentityConcurrent)                                                *)

\* No invocation is between its first and its last step.
Quiescent == \A p \in DOMAIN proc : proc[p].pc \in {"idle", "done"}

\* The step writes the cookie only if it is the returning step of a signIn
\* or signUp, and removes it only if it is a step of a logoutAccount.
CookieWrittenAndRemovedBy ==
    /\ cookie' # cookie /\ cookie' # NoCookie
         => \E p \in DOMAIN proc :
               ReturnsValue(p, "signIn") \/ ReturnsValue(p, "signUp")
    /\ cookie' # cookie /\ cookie' = NoCookie
         => \E p \in DOMAIN proc :
               proc[p].op = "logoutAccount" /\ proc'[p] # proc[p]

\* C12 as claimed: the cookie is written only by a signIn or signUp that
\* succeeds and removed only by logoutAccount, and whenever it is present
\* between invocations its value is the secret of the session the provider
\* created last.
C12_CookieIsLatestSession ==
    /\ [](Quiescent /\ cookie # NoCookie => cookie = SessionCookie(issued))
    /\ [][CookieWrittenAndRemovedBy]_vars

\* C12 as amended: the cookie is written only by a signIn or signUp that
\* succeeds and removed only by logoutAccount; the step that writes it
\* writes the secret of the session the provider created for that same
\* invocation; so whenever it is present it is the session cookie of a
\* secret the provider has issued, which need not be the latest one.
C12_CookieIsAnIssuedSession ==
    /\ [](cookie # NoCookie
            => \E k \in 1..issued : cookie = SessionCookie(k))
    /\ [][/\ CookieWrittenAndRemovedBy
          /\ \A p \in DOMAIN proc :
               ReturnsValue(p, "signIn") \/ ReturnsValue(p, "signUp")
                   => /\ cookie' = SessionCookie(proc[p].resp.val.secret)
                      /\ Succeeded(proc'[p].calls,
                                   "account.createEmailPasswordSession")]_vars

\* C12 witness: a signUp and a signIn overlapped and both succeeded; the one
\* whose session was created first wrote the cookie last, so the cookie
\* holds the older secret.
C12_Witness ==
    /\ issued = 2
    /\ cookie = SessionCookie(1)
    /\ \E p, q \in DOMAIN proc :
          /\ Done(p, "signUp") /\ Succeeds(p)
          /\ Done(q, "signIn") /\ Succeeds(q)

----------------------------------------------------------------------------
(* Claims about the generated client (SpecSdk) *)

\* The names of the methods; no two rows of Operations share one.
OperationNames == {o.name : o \in Operations}

\* C17: a call of a method of the generated client makes exactly one
\* this.core.fetch call, with the path and the verb that belong to the
\* method (postUser: POST /v3/user; postBankPlaid: POST
\* /v3/account/bank/iav/plaid) and with the arguments it was given, in
\* order; what the method's promise settles with is what the fetch settled
\* with; and no step of a method call changes the client's credentials,
\* options or server, which only auth, config and server set.
C17_MechanicalMapping ==
    /\ [](\A p \in Procs : \A o \in Operations :
            proc[p].op = o.name =>
                LET tr == proc[p].calls
                IN /\ Made(tr, "core.fetch") = {1}
                   /\ tr[1].arg.path = o.path
                   /\ tr[1].arg.method = o.method
                   /\ Len(tr[1].arg.rest) = Len(o.takes)
                   /\ proc[p].pc # "done"
                        => tr[1].arg.rest = proc[p].args.given
                   /\ o.name = "postUser"
                        => tr[1].arg.path = "/v3/user"
                           /\ tr[1].arg.method = "post"
                   /\ o.name = "postBankPlaid"
                        => tr[1].arg.path = "/v3/account/bank/iav/plaid"
                           /\ tr[1].arg.method = "post"
                   /\ proc[p].pc = "done"
                        => /\ Outcome(tr, 1).kind = "ok"
                               => proc[p].ret = Outcome(tr, 1).val
                                  /\ ~proc[p].threw
                           /\ Outcome(tr, 1).kind = "error" => proc[p].threw)
    /\ [][(\E p \in Procs : proc'[p] # proc[p])
            => UNCHANGED <<sdkAuth, sdkConfig, sdkServer>>]_vars
    /\ [](Cardinality(OperationNames) = Cardinality(Operations))

\* C17 witness: with credentials, options and server set by auth, config
\* and server, a putBank call (a body and metadata) has returned the
\* response of its fetch.
C17_Witness ==
    /\ sdkAuth = Credentials
    /\ sdkConfig # DefaultConfig
    /\ sdkServer # api_base_url
    /\ \E p \in Procs :
          /\ Done(p, "putBank")
          /\ Outcome(proc[p].calls, 1).kind = "ok"
          /\ proc[p].calls[1].arg.rest = <<"body-1", "metadata-1">>

----------------------------------------------------------------------------
(* Claims about AuthForm (SpecFormFair) *)

\* C18: while onSubmit waits for signIn or signUp isLoading is true; when
\* onSubmit is not running (it has not run yet, or it has finished: the
\* call gave a value, gave undefined, or threw) isLoading is false; and
\* isLoading, once true, becomes false again.
C18_LoadingReset ==
    /\ [](form.pc = "awaiting" => form.isLoading)
    /\ [](form.pc = "idle" => ~form.isLoading)
    /\ (form.isLoading ~> ~form.isLoading)

\* C18 witness: the call onSubmit awaited threw; onSubmit has finished and
\* isLoading is false.
C18_Witness ==
    /\ form.last = "threw"
    /\ form.pc = "idle"
    /\ ~form.isLoading

----------------------------------------------------------------------------
(* Claims about what the form does with the result of its submission *)

\* C23: the router is sent to "/" only in a sign-in form, and only by the
\* step in which onSubmit resumes with a truthy value returned by the signIn
\* it awaited; a submission whose signIn returned undefined or threw leaves
\* the router alone, and a sign-up form never navigates.
C23_NavigationOnlyAfterSignIn ==
    /\ [](/\ form.pushed => form.type = "sign-in" /\ form.last = "value"
          /\ form.type = "sign-up" => ~form.pushed
          /\ form.last \in {"undefined", "threw"} => ~form.pushed)
    /\ [][form'.pushed /\ ~form.pushed
            => /\ form.type = "sign-in"
               /\ form.pc = "awaiting"
               /\ Done(form.slot, "signIn")
               /\ Truthy(proc[form.slot].ret)
               /\ form'.pc = "idle"]_vars

\* C23 witness: a sign-in form has been submitted, signIn returned the
\* session, and the router was sent to "/".
C23_Witness ==
    /\ form.type = "sign-in"
    /\ form.pushed
    /\ form.pc = "idle"
    /\ cookie # NoCookie

\* C24: the bank-linking step is on the page exactly when user is truthy;
\* user is truthy only in a sign-up form whose last signUp returned a value,
\* and then it is an account the provider holds; after a signUp that
\* returned undefined the form is still displayed; a sign-in form keeps
\* user at null.
C24_PlaidLinkOnlyAfterSignUp ==
    /\ PlaidLinkRendered
         => /\ form.type = "sign-up"
            /\ form.last = "value"
            /\ form.user \in accounts
            /\ ~FormShown
    /\ PlaidLinkRendered <=> Truthy(form.user)
    /\ form.type = "sign-up" /\ form.pc = "idle" /\ form.last = "undefined"
         => ~PlaidLinkRendered /\ FormShown /\ form.user = Undefined
    /\ form.type = "sign-in" => form.user = Null /\ ~PlaidLinkRendered

\* C24 witness: a sign-up form has been submitted, signUp returned the
\* account, and the bank-linking step is shown.
C24_Witness ==
    /\ form.type = "sign-up"
    /\ form.pc = "idle"
    /\ PlaidLinkRendered
    /\ form.user \in accounts

----------------------------------------------------------------------------
(* Claims about the checkbook actions, continued (SpecCheckbook) *)

\* C26: createCheckbookCustomer has returned undefined, without throwing,
\* as soon as it has been called: it first sets the credentials
\* api_key:api_secret on the shared client and then sends POST /v3/user with
\* name firstName_lastName and user_id the email; whether the request is
\* then accepted or fails, the step that settles it leaves the invocation
\* and what it returned untouched.
C26_CustomerNeverDelivered ==
    /\ [](\A p \in Procs :
            proc[p].op = "createCheckbookCustomer"
              => /\ proc[p].pc = "done"
                 /\ proc[p].ret = Undefined
                 /\ ~proc[p].threw
                 /\ Len(proc[p].calls) = 2
                 /\ proc[p].calls[1]
                      = Call("sdk.auth", [credentials |-> api_key \o ":" \o api_secret])
                 /\ proc[p].calls[2].name = "sdk.postUser")
    /\ [][/\ \A p \in Procs, f \in FirstNames, l \in LastNames, e \in Emails :
              createCheckbookCustomer(p, f, l, e)
                => /\ sdkAuth' = api_key \o ":" \o api_secret
                   /\ Len(pending') = Len(pending) + 1
                   /\ pending'[Len(pending')].owner = p
                   /\ pending'[Len(pending')].request
                        = [path |-> "/v3/user", method |-> "post",
                           body |-> [name |-> f \o "_" \o l, user_id |-> e]]
                   /\ proc'[p].calls[2].arg = [name |-> f \o "_" \o l, user_id |-> e]
                   /\ proc'[p].ret = Undefined
          /\ Len(pending') < Len(pending) => proc' = proc]_vars

\* C26 witness: the platform has created the user createCheckbookCustomer
\* asked for, and the invocation, which returned before that, still has
\* undefined as its result.
C26_Witness ==
    \E p \in Procs :
        /\ Done(p, "createCheckbookCustomer")
        /\ proc[p].ret = Undefined
        /\ \A i \in DOMAIN pending : pending[i].owner # p
        /\ \E r \in checkbook :
              r.path = "/v3/user" /\ r.body = proc[p].calls[2].arg

====
